---- MODULE Spec2Model ----
(***************************************************************************)
(* vspreview/toolbars/comp/settings.py: CompSettings, the settings panel   *)
(* of the comparison toolbar.  The class derives from                      *)
(* AbstractToolbarSettings (vspreview.core), declares __slots__ = (),      *)
(* overrides setup_ui with a bare super().setup_ui() and set_defaults with *)
(* pass.                                                                   *)
(*                                                                         *)
(* The host toolkit drives one panel object from its single-threaded event *)
(* loop: every step of the model is one complete callback.  A callback     *)
(* that never returns blocks the event loop for good.                      *)
(***************************************************************************)
EXTENDS Naturals, Sequences, FiniteSets

VARIABLES
    panel,    \* the CompSettings object: its attributes and its UI
    log,      \* one record per callback the host has made, oldest first
    pre,      \* the panel as it was when the latest callback started
    shadow    \* the panel the base class alone makes of pre: the base setup_ui
              \* in the same host context, or pre itself for set_defaults

vars == <<panel, log, pre, shadow>>

\* Number of callbacks the host makes on the panel in one run.
MaxCalls == 3

(***************************************************************************)
(* Host contexts.  What the base setup does is decided by the host: it     *)
(* returns, raises one of the host's errors, or never returns; a fault may *)
(* strike before or after the base layout container is in place.           *)
(***************************************************************************)
HostErrors == {"RuntimeError", "TypeError"}

HostContexts ==
    { h \in [exc : {"none", "hang"} \cup HostErrors, built : BOOLEAN] :
        h.exc = "none" => h.built }

\* Attributes an AbstractToolbarSettings instance provides.
AbstractToolbarSettings_slots == {"vlayout"}

\* __slots__ as it would read with a field of the class's own
slots_with_field == {"label"}

\* settings.py line 9: __slots__ = ()
CompSettings_slots == {}

\* The attribute names an instance of CompSettings has room for: those of
\* every class of its MRO.
InstanceSlots == AbstractToolbarSettings_slots \cup CompSettings_slots

\* The object the constructor leaves: no attribute bound, no layout yet.
NewPanel ==
    [slots    |-> InstanceSlots,
     bound    |-> {},
     layout   |-> "none",
     widgets  |-> <<>>,
     defaults |-> "unset"]

\* What a callback hands back to the event loop.
Result(obj, outcome, exc, ret, trace) ==
    [obj |-> obj, outcome |-> outcome, exc |-> exc, ret |-> ret, trace |-> trace]

OutcomeOf(h) ==
    IF h.exc = "none" THEN "returned"
    ELSE IF h.exc = "hang" THEN "hung" ELSE "raised"

(***************************************************************************)
(* AbstractToolbarSettings.setup_ui: establishes the base layout container *)
(* on the widget and binds it to self.vlayout.                             *)
(***************************************************************************)
AbstractToolbarSettings_setup_ui(obj, h) ==
    LET built == IF h.built
                 THEN [obj EXCEPT !.layout = "QVBoxLayout",
                                  !.bound  = @ \cup {"vlayout"}]
                 ELSE obj
    IN  Result(built, OutcomeOf(h), h.exc,
               IF h.exc = "none" THEN "None" ELSE "nothing",
               <<"AbstractToolbarSettings.setup_ui">>)

\* AbstractToolbarSettings.set_defaults: applies the base's defaults.
AbstractToolbarSettings_set_defaults(obj) ==
    Result([obj EXCEPT !.defaults = "applied"], "returned", "none", "None",
           <<"AbstractToolbarSettings.set_defaults">>)

(***************************************************************************)
(* Variants of the two overrides, each the override as a slip in           *)
(* settings.py would have left it.                                         *)
(***************************************************************************)
\* setup_ui that puts a widget of its own into the layout after the base call
setup_ui_adds_widget(obj, h) ==
    LET r == AbstractToolbarSettings_setup_ui(obj, h)
    IN  IF r.outcome = "returned"
        THEN [r EXCEPT !.obj.widgets = Append(@, "QLabel"),
                       !.trace = Append(@, "vlayout.addWidget")]
        ELSE r

\* setup_ui wrapped in try/except that swallows the base's error
setup_ui_swallows(obj, h) ==
    LET r == AbstractToolbarSettings_setup_ui(obj, h)
    IN  IF r.outcome = "raised"
        THEN [r EXCEPT !.outcome = "returned", !.exc = "none", !.ret = "None"]
        ELSE r

\* setup_ui that calls the base setup twice
setup_ui_calls_twice(obj, h) ==
    LET r1 == AbstractToolbarSettings_setup_ui(obj, h)
        r2 == AbstractToolbarSettings_setup_ui(r1.obj, h)
    IN  IF r1.outcome = "returned"
        THEN [r2 EXCEPT !.trace = r1.trace \o @]
        ELSE r1

\* setup_ui that flips the layout on every call
setup_ui_toggles(obj, h) ==
    LET r == AbstractToolbarSettings_setup_ui(obj, h)
    IN  IF r.outcome = "returned" /\ obj.layout # "none"
        THEN [r EXCEPT !.obj.layout = "none"]
        ELSE r

\* setup_ui that waits on the event loop after the base call
setup_ui_waits(obj, h) ==
    LET r == AbstractToolbarSettings_setup_ui(obj, h)
    IN  IF r.outcome = "returned"
        THEN [r EXCEPT !.outcome = "hung", !.ret = "nothing",
                       !.trace = Append(@, "QEventLoop.exec")]
        ELSE r

\* set_defaults that keeps a value of its own on the instance
set_defaults_stores(obj) ==
    Result([obj EXCEPT !.bound = @ \cup {"_defaults_set"}],
           "returned", "none", "None", <<>>)

\* set_defaults that delegates to the base
set_defaults_calls_super(obj) ==
    AbstractToolbarSettings_set_defaults(obj)

(***************************************************************************)
(* settings.py lines 11-12                                                 *)
(*     def setup_ui(self) -> None:                                         *)
(*         super().setup_ui()                                              *)
(* The base call is the only statement: its effect on self, its error and  *)
(* its non-termination are the override's; on return the override falls    *)
(* off its end and returns None.                                           *)
(***************************************************************************)
CompSettings_setup_ui(obj, h) ==
    LET r == AbstractToolbarSettings_setup_ui(obj, h)
    IN  IF r.outcome = "returned"
        THEN Result(r.obj, "returned", "none", "None", r.trace)
        ELSE r

(***************************************************************************)
(* settings.py lines 14-15                                                 *)
(*     def set_defaults(self) -> None:                                     *)
(*         pass                                                            *)
(***************************************************************************)
CompSettings_set_defaults(obj) ==
    Result(obj, "returned", "none", "None", <<>>)

----------------------------------------------------------------------------
Init ==
    /\ panel  = NewPanel
    /\ log    = <<>>
    /\ pre    = NewPanel
    /\ shadow = NewPanel

\* The event loop delivers a callback only while no callback is stuck.
Running ==
    /\ Len(log) < MaxCalls
    /\ (log # <<>> => log[Len(log)].outcome # "hung")

Entry(op, h, r) ==
    [op |-> op, host |-> h, outcome |-> r.outcome, exc |-> r.exc,
     ret |-> r.ret, trace |-> r.trace]

\* The host invokes panel.setup_ui() in some host context.
SetupUi ==
    /\ Running
    /\ \E h \in HostContexts :
          LET r == CompSettings_setup_ui(panel, h)
          IN  /\ panel'  = r.obj
              /\ log'    = Append(log, Entry("setup_ui", h, r))
              /\ pre'    = panel
              /\ shadow' = AbstractToolbarSettings_setup_ui(panel, h).obj

\* set_defaults takes nothing from the host.
NoContext == [exc |-> "none", built |-> TRUE]

\* The host invokes panel.set_defaults().
SetDefaults ==
    /\ Running
    /\ LET r == CompSettings_set_defaults(panel)
       IN  /\ panel'  = r.obj
           /\ log'    = Append(log, Entry("set_defaults", NoContext, r))
           /\ pre'    = panel
           /\ shadow' = panel

Next == SetupUi \/ SetDefaults

Spec == Init /\ [][Next]_vars

----------------------------------------------------------------------------
\* The latest callback, and the one before it.
Called == log # <<>>
Last == log[Len(log)]
Prev == log[Len(log) - 1]

BaseSetup == "AbstractToolbarSettings.setup_ui"

----------------------------------------------------------------------------
\* C1: whenever the base setup does not raise in the host context of a
\* setup_ui call, CompSettings.setup_ui does not raise either and the panel
\* it leaves is exactly the panel the base setup_ui alone leaves from the
\* same starting state.
C1_SetupMatchesBase ==
    (Called /\ Last.op = "setup_ui" /\ Last.host.exc \notin HostErrors)
        => (Last.outcome # "raised" /\ Last.exc \notin HostErrors /\ panel = shadow)

C1_Witness ==
    /\ Len(log) >= 2
    /\ Last.op = "setup_ui"
    /\ Last.host.exc = "none"
    /\ Last.outcome = "returned"
    /\ panel.layout = "QVBoxLayout"
    /\ pre.layout = "none"

\* C2: every set_defaults call, wherever it falls among the setup_ui calls,
\* returns normally, returns None and leaves the whole panel, base-owned
\* state included, as it found it.
C2_SetDefaultsNoEffect ==
    (Called /\ Last.op = "set_defaults")
        => (Last.outcome = "returned" /\ Last.ret = "None" /\ panel = pre)

C2_Witness ==
    /\ Len(log) = 3
    /\ log[1].op = "set_defaults"
    /\ log[2].op = "setup_ui"
    /\ log[2].outcome = "returned"
    /\ log[3].op = "set_defaults"
    /\ panel.layout = "QVBoxLayout"

\* C3: when the base setup raises during setup_ui, the caller gets that very
\* error, the base call is the last thing the override did, and the panel is
\* as the base left it.
C3_BaseErrorPropagates ==
    (Called /\ Last.op = "setup_ui" /\ Last.host.exc \in HostErrors)
        => /\ Last.outcome = "raised"
           /\ Last.exc = Last.host.exc
           /\ Last.trace[Len(Last.trace)] = BaseSetup
           /\ panel = shadow

C3_Witness ==
    /\ Called
    /\ Last.op = "setup_ui"
    /\ Last.host = [exc |-> "TypeError", built |-> TRUE]
    /\ Last.outcome = "raised"
    /\ pre.layout = "none"
    /\ panel.layout = "QVBoxLayout"

\* C4: in every reachable state the attribute set of the CompSettings object
\* is the set its base class provides, and no attribute outside it is bound.
C4_NoOwnAttributes ==
    /\ panel.slots = AbstractToolbarSettings_slots
    /\ panel.bound \subseteq AbstractToolbarSettings_slots

C4_Witness ==
    /\ Len(log) >= 2
    /\ \E i, j \in 1..Len(log) : log[i].op = "setup_ui" /\ log[j].op = "set_defaults"
    /\ panel.bound = {"vlayout"}

\* C5: every setup_ui call performs exactly one operation, the base class's
\* setup_ui: once, first, and nothing after it.
C5_BaseCalledOnceFirst ==
    (Called /\ Last.op = "setup_ui") => Last.trace = <<BaseSetup>>

C5_Witness ==
    /\ Len(log) >= 2
    /\ Prev.op = "setup_ui"
    /\ Prev.outcome = "returned"
    /\ Last.op = "setup_ui"
    /\ Last.outcome = "returned"

C7_NoBlocking ==
    Called =>
        /\ (Last.op = "set_defaults" => Last.outcome # "hung")
        /\ (Last.op = "setup_ui" /\ Last.host.exc # "hang" => Last.outcome # "hung")

C7_Witness ==
    /\ Len(log) >= 2
    /\ Prev.op = "set_defaults"
    /\ Last.op = "setup_ui"
    /\ Last.host.exc = "none"
    /\ Last.outcome = "returned"

\* C8: set_defaults calls nothing, the base class's set_defaults included:
\* the base's defaults are not applied and base-owned state is untouched.
C8_SetDefaultsSkipsBase ==
    (Called /\ Last.op = "set_defaults")
        => /\ Last.trace = <<>>
           /\ panel.defaults = pre.defaults
           /\ panel.layout = pre.layout
           /\ panel.bound = pre.bound

C8_Witness ==
    /\ Len(log) >= 2
    /\ Prev.op = "setup_ui"
    /\ Last.op = "set_defaults"
    /\ panel.defaults = "unset"
    /\ panel.bound = {"vlayout"}

====
